---- MODULE Spec2Model ----
(***************************************************************************)
(* Incremental tabular ETL scripts of the repository: the running-record   *)
(* (cursor) file, the date-window filter, enrichment, type conversion and  *)
(* the sink, for the script variants                                       *)
(*   V13  Backup/CVD_Crystal_Length_INI contorl V1.3.py                    *)
(*   GRT  Backup/CVD_Grating.py                                            *)
(*   V04  048 TAK_SPC/Backup/TAK_SPUT_V0.4 CHATGPT optimized.py            *)
(*   LDS  043_LD-SPUT/LD-SPUT_V0.1.py                                      *)
(* One behaviour follows one script (variant) over a sequence of runs of   *)
(* its main(); each run processes the files of one INI configuration in    *)
(* order, all of them against the single running_rec path of that INI.     *)
(***************************************************************************)
EXTENDS Integers, Sequences, FiniteSets, TLC

\* ------------------------------------------------------------------ bounds
MaxStamp == 4        \* number of distinct valid date values in a sheet
MaxRows  == 2        \* rows over all sheets of the configuration
MaxTick  == 1        \* days the clock may advance between runs
NFiles   == 2        \* files matched by the configuration's pattern
MaxIn    == 3        \* rows of a frame that is resampled
MaxMinute == 2       \* latest minute of a measurement time
MaxSheets == 3       \* sheets of a workbook
MaxVersion == 2      \* largest "(n)" in a sheet name
MaxXY == 3           \* rows of an XY coordinate sheet
MaxLines == 3        \* lines of the fields option
MaxParts == 4        \* ':'-separated parts of a line
MaxFields == 3       \* fields of a configuration

\* ------------------------------------------------------- program constants
DEFAULT_FALLBACK_DAYS == 30

\* ------------------------------------------------------------- value space
Variants == {"V13", "GRT", "V04", "LDS"}
Files    == 1..NFiles

Now0     == DEFAULT_FALLBACK_DAYS + 10            \* the day of the first run
Stamps   == (Now0 - DEFAULT_FALLBACK_DAYS - 1) .. (Now0 - DEFAULT_FALLBACK_DAYS - 2 + MaxStamp)
NA       == 0        \* a cell that is not a date ("N/A")
NaT      == -1       \* pandas NaT: result of to_datetime(errors='coerce') on NA
None     == -2       \* Python None
DateCells == Stamps \cup {NA}

Serials  == {"S1", "150-2", "P7"}    \* natural keys found in sheets
NaN      == "nan"    \* an empty cell, read as NaN
Values   == {"3.5", "N/A", NaN}     \* a float-typed measurement cell

\* A sheet row: start-date cell, end-date cell (read by V04 only), serial, value
Rows == [ts : DateCells, end : DateCells, sn : Serials, val : Values]

\* Rows that can be told apart by a variant: only V04 reads the end-date
\* column, and it neither queries the database nor reads another serial;
\* its sheets are taken without empty cells.
RowsOf(v) ==
    IF v = "V04" THEN {r \in Rows : r.sn = "150-2" /\ r.val # NaN}
    ELSE {r \in Rows : r.end = r.ts /\ (r.sn # "150-2" => r.val = "3.5")}

\* Running-record file content
Absent    == [kind |-> "absent", val |-> 0]
Empty     == [kind |-> "empty",  val |-> 0]
Stored(t) == [kind |-> "ts",     val |-> t]
RecValues == {Absent, Empty} \cup {Stored(t) : t \in Stamps}

VARIABLES
    variant,    \* the script being run
    faults,     \* injected faults: "none", "fs" (file writes), "db" (connection)
    now,        \* datetime.today() / datetime.now()
    sheet,      \* sheet[f]: rows of the main sheet of file f
    tsfield,    \* key_Start_Date_Time is among the configured fields
    rs,         \* 051_Particle resampling: input frame, outcome, rows kept
    sel,        \* find_latest_sheet: sheet names, outcome, name returned
    xy,         \* the XY coordinate sheet of a file and the points merged from it
    fcfg,       \* the field lines of a configuration and the fields parsed
    fl,         \* the fields of one row and what the field loop made of them
    tc,         \* type coercion of a table: its rows, the loop counter, the rows left
    rec,        \* content of the running_rec file of the configuration
    pc,         \* position of the run
    cur,        \* file being processed
    df,         \* the DataFrame: sequence of row indices into sheet[cur]
    thr,        \* processing_start_threshold / one_month_ago
    latest,     \* latest_date
    row,        \* row / row_number of the per-row loop (V04, LDS)
    sent,       \* row indices handed to the sink while processing cur
    wlog,       \* update_running_rec calls made while processing cur
    nreads,     \* read_running_rec calls made while processing cur
    conn,       \* SQL.connSQL() of the file being processed: "unknown", "up", "down"
    startRec,   \* rec when processing of cur started
    prevSent,   \* prevSent[f]: rows of f sent by the previous run
    own,        \* own[f]: rec when the last processing of f ended
    prevRec,    \* rec when the current run started
    ran,        \* a previous run completed
    dirty,      \* a row was appended since the last run started
    clean       \* the current run repeats a completed run on unchanged sheets

vars == <<variant, faults, now, sheet, tsfield, rs, sel, xy, fcfg, fl, tc, rec, pc, cur, df, thr, latest, row, sent,
          wlog, nreads, conn, startRec, prevSent, own, prevRec, ran, dirty, clean>>

envVars  == <<variant, faults, now, sheet, tsfield, rs, sel, xy, fcfg, fl, tc>>
histVars == <<prevSent, own, prevRec, ran, dirty, clean>>

\* everything but the resampling and the sheet search
pipeVars == <<variant, faults, now, sheet, tsfield, rec, pc, cur, df, thr, latest,
              row, sent, wlog, nreads, conn, startRec, histVars>>

\* ------------------------------------------------------------ pure helpers
Max(S) == CHOOSE x \in S : \A y \in S : y <= x

RECURSIVE SumLen(_, _)
SumLen(sh, n) == IF n = 0 THEN 0 ELSE Len(sh[n]) + SumLen(sh, n - 1)

TotalRows == SumLen(sheet, NFiles)

\* pd.to_datetime(cell, errors='coerce')
ToDatetime(c) == IF c = NA THEN NaT ELSE c

\* Series comparison: any comparison against NaT is False
GE(a, b) == a # NaT /\ b # NaT /\ a >= b

\* 1..n as a sequence of row indices
Indices(n) == [i \in 1..n |-> i]

Range(s) == {s[i] : i \in 1..Len(s)}

\* datetime.today() - timedelta(days=default_days_ago)
Fallback == now - DEFAULT_FALLBACK_DAYS

\* ------------------------------------------------------------ cursor store
\* read_running_rec: the stored timestamp, or the fallback when the file is
\* absent, empty or unparseable
ReadValue(r) == IF r.kind = "ts" THEN r.val ELSE Fallback

\* read_running_rec writes an empty file when none exists
AfterRead(r) == IF r.kind = "absent" THEN Empty ELSE r

\* CVD_Grating.read_running_rec: the stored content is only logged
GRT_ReadValue(r) == Fallback

\* Outcomes of open(path, 'w') followed by f.write(...)
WriteOutcomes == IF faults = "fs" THEN {"ok", "open_fails", "write_fails"} ELSE {"ok"}

\* update_running_rec: open(path,'w') truncates in place, then the formatted
\* date is written; every exception is caught and logged
UpdateRec(r, t, outcome) ==
    CASE outcome = "ok"          -> Stored(t)
      [] outcome = "open_fails"  -> r
      [] outcome = "write_fails" -> Empty

\* LD-SPUT update_or_create_running_rec receives df[start_col].max(), a str
\* produced by strftime at line 132: end_date.strftime raises AttributeError
\* after open(path,'w') has truncated the file
LDS_UpdateRec(r, t, outcome) ==
    IF outcome = "open_fails" THEN r ELSE Empty

\* one call of update_running_rec: content before, date passed, outcome
WriteEvent(old, t, o) == [old |-> old, new |-> t, res |-> o]

\* ----------------------------------------------------------- frame stages
Cell(i) == sheet[cur][i]

\* original_dates_series.dropna().max(), None when no date parses
LatestDate(s) ==
    LET ds == {ToDatetime(Cell(s[i]).ts) : i \in 1..Len(s)} \ {NaT}
    IN  IF ds = {} THEN None ELSE Max(ds)

\* the filter with a strict comparison
KeepByDate_Strict(i, t) == ToDatetime(Cell(i).ts) # NaT /\ ToDatetime(Cell(i).ts) > t

\* dropna(subset=['__parsed_date__']) then __parsed_date__ >= threshold
KeepByDate(i, t) == ToDatetime(Cell(i).ts) # NaT /\ ToDatetime(Cell(i).ts) >= t

DateFilter(s, t) == LET P(i) == KeepByDate(i, t) IN SelectSeq(s, P)

\* df[col].apply(pd.to_datetime, errors='coerce') >= one_month_ago
LDS_DateFilter(s, t) == LET P(i) == GE(ToDatetime(Cell(i).ts), t) IN SelectSeq(s, P)

\* SQL.selectSQL(cursor, serial) -> (part_number, lot_number_9)
NoneStr == "None"
KnownSerials == {"150-2"}
\* serials for which the lookup returns a part number but no lot number
PartialSerials == {"P7"}
SelectSQL(sn) ==
    IF sn \in KnownSerials THEN <<"PN123", "LOT9">>
    ELSE IF sn \in PartialSerials THEN <<"PN123", NoneStr>>
    ELSE <<NoneStr, NoneStr>>

\* SQL.connSQL() returns (None, None) when the database cannot be reached
ConnOutcomes == IF faults = "db" THEN {"up", "down"} ELSE {"up"}

\* dropna(subset=['part_number'])
Enrich(s) == LET P(i) == SelectSQL(Cell(i).sn)[1] # NoneStr IN SelectSeq(s, P)

\* a conversion that accepts every cell
FloatOK_Any(v) == TRUE

\* float(original_value) raises ValueError on "N/A"
FloatOK(v) == v # "N/A"

\* rows_to_drop_indices removed after the loop
TypeConv(s) == LET P(i) == FloatOK(Cell(i).val) IN SelectSeq(s, P)

\* the converted cell: pd.isna(value) gives None in V1.3 and CVD_Grating,
\* float(nan) is nan in the per-row loops
Converted(v) ==
    IF v = NaN THEN (IF variant \in {"V13", "GRT"} THEN NoneStr ELSE NaN) ELSE v

\* the record of sheet row i as it is handed to the sink
OutRec(i) ==
    [part_number  |-> IF variant = "V04" THEN "XQJ-30150"
                      ELSE IF conn = "up" THEN SelectSQL(Cell(i).sn)[1] ELSE NoneStr,
     lot_number_9 |-> IF variant = "V04" THEN "1000047352"
                      ELSE IF conn = "up" THEN SelectSQL(Cell(i).sn)[2] ELSE NoneStr,
     val          |-> Converted(Cell(i).val)]

\* `latest_date and latest_date > read_running_rec(...)`
Newer(lat, t) == lat # None /\ lat > t

\* ------------------------------------------------------------ environment
\* no frame is being resampled, no sheet list is being searched
NoResample == [prog |-> "051", in |-> << >>, ch1 |-> FALSE, st |-> "off", out |-> {}]
NoSelect   == [names |-> << >>, st |-> "off", found |-> 0]
NoXY       == [prog |-> "V13", found |-> FALSE, tab |-> << >>, st |-> "off",
               npts |-> 0, pts |-> << >>]
NoCfg      == [prog |-> "MESA", lines |-> << >>, st |-> "off", fields |-> {}]
NoLoop     == [prog |-> "SPT", fields |-> << >>, st |-> "off", out |-> << >>]
NoCoerce   == [prog |-> "V13", frame |-> << >>, nf |-> 0, lost |-> 0, k |-> 0,
               live |-> << >>, marked |-> {}, st |-> "off"]

Init ==
    /\ variant \in Variants
    /\ faults = "none"
    /\ now = Now0
    /\ tsfield = TRUE
    /\ rs = NoResample
    /\ sel = NoSelect
    /\ xy = NoXY
    /\ fcfg = NoCfg
    /\ fl = NoLoop
    /\ tc = NoCoerce
    /\ sheet = [f \in Files |-> << >>]
    /\ rec = Absent
    /\ pc = "idle"
    /\ cur = 1
    /\ df = << >>
    /\ thr = None
    /\ latest = None
    /\ row = 0
    /\ sent = {}
    /\ wlog = << >>
    /\ nreads = 0
    /\ conn = "unknown"
    /\ startRec = Absent
    /\ prevSent = [f \in Files |-> {}]
    /\ own = [f \in Files |-> Absent]
    /\ prevRec = Absent
    /\ ran = FALSE
    /\ dirty = FALSE
    /\ clean = FALSE

\* The equipment appends a row to a spreadsheet between two runs
AppendRow ==
    /\ pc = "idle"
    /\ TotalRows < MaxRows
    /\ \E f \in Files, r \in RowsOf(variant) :
          sheet' = [sheet EXCEPT ![f] = Append(@, r)]
    /\ dirty' = TRUE
    /\ UNCHANGED <<variant, faults, now, tsfield, rs, sel, xy, fcfg, fl, tc, rec, pc, cur, df, thr, latest, row, sent, wlog,
                   nreads, conn, startRec, prevSent, own, prevRec, ran, clean>>

\* Time passes between two runs
Tick ==
    /\ pc = "idle"
    /\ now < Now0 + MaxTick
    /\ now' = now + 1
    /\ UNCHANGED <<variant, faults, sheet, tsfield, rs, sel, xy, fcfg, fl, tc, rec, pc, cur, df, thr, latest, row, sent, wlog,
                   nreads, conn, startRec, prevSent, own, prevRec, ran, dirty, clean>>

\* main(): process_ini_file starts on the first matched file
StartRun ==
    /\ pc = "idle"
    /\ pc' = "read"
    /\ cur' = 1
    /\ df' = << >> /\ thr' = None /\ latest' = None /\ row' = 0
    /\ sent' = {} /\ wlog' = << >> /\ nreads' = 0 /\ conn' = "unknown"
    /\ startRec' = rec
    /\ prevRec' = rec
    /\ clean' = (ran /\ ~dirty)
    /\ dirty' = FALSE
    /\ ran' = FALSE
    /\ UNCHANGED <<envVars, rec, prevSent, own>>

\* the loop over the matched files moves on, or the run ends
NextFile ==
    /\ pc = "done"
    /\ prevSent' = [prevSent EXCEPT ![cur] = sent]
    /\ own' = [own EXCEPT ![cur] = rec]
    /\ IF cur < NFiles
         THEN pc' = "read" /\ cur' = cur + 1 /\ ran' = ran
         ELSE pc' = "idle" /\ cur' = 1 /\ ran' = TRUE
    /\ df' = << >> /\ thr' = None /\ latest' = None /\ row' = 0
    /\ sent' = {} /\ wlog' = << >> /\ nreads' = 0 /\ conn' = "unknown"
    /\ startRec' = rec
    /\ UNCHANGED <<envVars, rec, prevRec, dirty, clean>>

MidFile == {"read", "filter", "enrich", "types", "rename", "save", "commit",
            "cursor", "rows"}

\* the process is killed while a file is being processed
Kill ==
    /\ pc \in MidFile
    /\ pc' = "killed"
    /\ UNCHANGED <<envVars, rec, cur, df, thr, latest, row, sent, wlog, nreads, conn,
                   startRec, histVars>>

\* the scheduler starts the script again after a kill or a crash
Restart ==
    /\ pc \in {"killed", "crashed"}
    /\ pc' = "idle"
    /\ cur' = 1
    /\ df' = << >> /\ thr' = None /\ latest' = None /\ row' = 0
    /\ sent' = {} /\ wlog' = << >> /\ nreads' = 0 /\ conn' = "unknown"
    /\ startRec' = rec
    /\ own' = [own EXCEPT ![cur] = rec]
    /\ ran' = FALSE /\ clean' = FALSE
    /\ UNCHANGED <<envVars, rec, prevSent, prevRec, dirty>>

\* --------------------------------------------- V13 and GRT: staged pipeline
\* _read_excel_sheets, then `if df_main is None or df_main.empty: return`
ReadSheets ==
    /\ variant \in {"V13", "GRT"}
    /\ pc = "read"
    /\ df' = Indices(Len(sheet[cur]))
    /\ pc' = IF Len(sheet[cur]) = 0 THEN "done" ELSE "filter"
    /\ UNCHANGED <<envVars, rec, cur, thr, latest, row, sent, wlog, nreads, conn, startRec, histVars>>

\* V1.3 _apply_date_filter and the caller's `if df_filtered.empty: return`;
\* without key_Start_Date_Time the filter returns (df.copy(), None)
V13_ApplyDateFilter ==
    /\ variant = "V13"
    /\ pc = "filter"
    /\ \E o \in WriteOutcomes :
        LET t    == ReadValue(rec)
            r1   == AfterRead(rec)
            lat  == IF tsfield THEN LatestDate(df) ELSE None
            kept == IF tsfield THEN DateFilter(df, t) ELSE df
            w    == kept = << >> /\ Newer(lat, t)
        IN  /\ thr' = t
            /\ latest' = lat
            /\ df' = kept
            /\ nreads' = nreads + 1
            /\ rec' = IF w THEN UpdateRec(r1, lat, o) ELSE r1
            /\ wlog' = IF w THEN Append(wlog, WriteEvent(r1, lat, o)) ELSE wlog
            /\ pc' = IF kept = << >> THEN "done" ELSE "enrich"
    /\ UNCHANGED <<envVars, cur, row, sent, conn, startRec, histVars>>

\* V1.3 _enrich_with_sql_data and `if df_with_sql.empty: return`; without a
\* connection the frame is returned as it is, part_number None in every row
V13_Enrich ==
    /\ variant = "V13"
    /\ pc = "enrich"
    /\ \E c \in ConnOutcomes :
        LET kept == IF c = "up" THEN Enrich(df) ELSE df
        IN  /\ conn' = c
            /\ df' = kept
            /\ pc' = IF kept = << >> THEN "done" ELSE "types"
    /\ UNCHANGED <<envVars, rec, cur, thr, latest, row, sent, wlog, nreads, startRec, histVars>>

\* V1.3 _apply_type_conversions and the guarded update when nothing is left
V13_TypeConv ==
    /\ variant = "V13"
    /\ pc = "types"
    /\ \E o \in WriteOutcomes :
        LET kept == TypeConv(df)
            w    == kept = << >> /\ Newer(latest, ReadValue(rec))
        IN  /\ df' = kept
            /\ nreads' = IF kept = << >> /\ latest # None THEN nreads + 1 ELSE nreads
            /\ rec' = IF w THEN UpdateRec(rec, latest, o) ELSE rec
            /\ wlog' = IF w THEN Append(wlog, WriteEvent(rec, latest, o)) ELSE wlog
            /\ pc' = IF kept = << >> THEN "done" ELSE "rename"
    /\ UNCHANGED <<envVars, cur, thr, latest, row, sent, conn, startRec, histVars>>

\* V1.3 line 402: `settings` is not bound in process_single_excel_file; the
\* NameError is caught by process_ini_file, which goes on to the next file
V13_Rename ==
    /\ variant = "V13"
    /\ pc = "rename"
    /\ pc' = "done"
    /\ UNCHANGED <<envVars, rec, cur, df, thr, latest, row, sent, wlog, nreads, conn, startRec, histVars>>

\* CVD_Grating: a stage left the frame empty; `latest_date and latest_date >
\* read_running_rec(...)` guards the update, then return
GRT_EmptyExit(kept, lat, o) ==
    LET w == Newer(lat, GRT_ReadValue(rec))
    IN  /\ df' = kept
        /\ nreads' = nreads + (IF lat # None THEN 1 ELSE 0)
        /\ rec' = IF w THEN UpdateRec(rec, lat, o) ELSE rec
        /\ wlog' = IF w THEN Append(wlog, WriteEvent(rec, lat, o)) ELSE wlog
        /\ pc' = "done"

GRT_ApplyDateFilter ==
    /\ variant = "GRT"
    /\ pc = "filter"
    /\ \E o1 \in WriteOutcomes, o2 \in WriteOutcomes :
        LET t    == GRT_ReadValue(rec)
            lat  == IF tsfield THEN LatestDate(df) ELSE None
            kept == IF tsfield THEN DateFilter(df, t) ELSE df
            w1   == kept = << >> /\ Newer(lat, t)
            r1   == IF w1 THEN UpdateRec(rec, lat, o1) ELSE rec
            w2   == kept = << >> /\ Newer(lat, GRT_ReadValue(r1))
        IN  /\ thr' = t
            /\ latest' = lat
            /\ df' = kept
            /\ nreads' = nreads + 1 + (IF kept = << >> /\ lat # None THEN 1 ELSE 0)
            /\ rec' = IF w2 THEN UpdateRec(r1, lat, o2) ELSE r1
            /\ wlog' = (IF w1 THEN Append(wlog, WriteEvent(rec, lat, o1)) ELSE wlog)
                       \o (IF w2 THEN <<WriteEvent(r1, lat, o2)>> ELSE << >>)
            /\ pc' = IF kept = << >> THEN "done" ELSE "enrich"
    /\ UNCHANGED <<envVars, cur, row, sent, conn, startRec, histVars>>

GRT_Enrich ==
    /\ variant = "GRT"
    /\ pc = "enrich"
    /\ \E c \in ConnOutcomes :
        LET kept == IF c = "up" THEN Enrich(df) ELSE df
        IN  /\ conn' = c
            /\ IF kept = << >>
                 THEN \E o \in WriteOutcomes : GRT_EmptyExit(kept, latest, o)
                 ELSE /\ df' = kept
                      /\ pc' = "types"
                      /\ UNCHANGED <<rec, wlog, nreads>>
    /\ UNCHANGED <<envVars, cur, thr, latest, row, sent, startRec, histVars>>

GRT_TypeConv ==
    /\ variant = "GRT"
    /\ pc = "types"
    /\ IF TypeConv(df) = << >>
         THEN \E o \in WriteOutcomes : GRT_EmptyExit(TypeConv(df), latest, o)
         ELSE /\ df' = TypeConv(df)
              /\ pc' = "save"
              /\ UNCHANGED <<rec, wlog, nreads>>
    /\ UNCHANGED <<envVars, cur, thr, latest, row, sent, conn, startRec, histVars>>

\* _perform_column_renaming, _save_to_csv and generate_xml
GRT_Save ==
    /\ variant = "GRT"
    /\ pc = "save"
    /\ sent' = sent \cup Range(df)
    /\ pc' = "commit"
    /\ UNCHANGED <<envVars, rec, cur, df, thr, latest, row, wlog, nreads, conn, startRec, histVars>>

\* `if latest_date: update_running_rec(...)` after generate_xml
GRT_Commit ==
    /\ variant = "GRT"
    /\ pc = "commit"
    /\ \E o \in WriteOutcomes :
        /\ rec' = IF latest # None THEN UpdateRec(rec, latest, o) ELSE rec
        /\ wlog' = IF latest # None THEN Append(wlog, WriteEvent(rec, latest, o)) ELSE wlog
    /\ pc' = "done"
    /\ UNCHANGED <<envVars, cur, df, thr, latest, row, sent, nreads, conn, startRec, histVars>>

\* ------------------------------------------------- V04: TAK_SPUT_V0.4 loop
\* cfg Running_date, the look-back window in days
Running_date == DEFAULT_FALLBACK_DAYS

\* max of pd.to_datetime(df[END col], errors='coerce'); NaT when none parses
LatestEnd(s) ==
    LET ds == {ToDatetime(Cell(s[i]).end) : i \in 1..Len(s)} \ {NaT}
    IN  IF ds = {} THEN NaT ELSE Max(ds)

\* serial.startswith("150") or serial.startswith("115")
HasPrefix(sn) == sn \in {"150-2"}

\* load_and_filter_dataframe, expand_serial_number_rows and
\* append_part_number_info; on an empty frame df[mat_col] raises KeyError,
\* without key_Start_Date_Time fields[...] does, and nothing catches them
V04_Load ==
    /\ variant = "V04"
    /\ pc = "read"
    /\ LET t    == now - Running_date
           kept == LDS_DateFilter(Indices(Len(sheet[cur])), t)
       IN  /\ thr' = IF tsfield THEN t ELSE thr
           /\ df' = IF tsfield THEN kept ELSE df
           /\ pc' = IF ~tsfield \/ kept = << >> THEN "crashed" ELSE "cursor"
    /\ UNCHANGED <<envVars, rec, cur, latest, row, sent, wlog, nreads, conn, startRec, histVars>>

\* lines 282-286: the running record is updated before the row loop
V04_Cursor ==
    /\ variant = "V04"
    /\ pc = "cursor"
    /\ \E o \in WriteOutcomes :
        LET lat == LatestEnd(df)
        IN  /\ latest' = lat
            /\ rec' = IF lat # NaT THEN UpdateRec(rec, lat, o) ELSE rec
            /\ wlog' = IF lat # NaT THEN Append(wlog, WriteEvent(rec, lat, o)) ELSE wlog
    /\ pc' = "rows"
    /\ UNCHANGED <<envVars, cur, df, thr, row, sent, nreads, conn, startRec, histVars>>

\* one iteration of `for _, row in df.iterrows()`
V04_Row ==
    /\ variant = "V04"
    /\ pc = "rows"
    /\ LET i == df[row + 1]
       IN  sent' = IF HasPrefix(Cell(i).sn) /\ FloatOK(Cell(i).val)
                     THEN sent \cup {i} ELSE sent
    /\ row' = row + 1
    /\ pc' = IF row + 1 = Len(df) THEN "done" ELSE "rows"
    /\ UNCHANGED <<envVars, rec, cur, df, thr, latest, wlog, nreads, conn, startRec, histVars>>

\* ---------------------------------------------------- LDS: LD-SPUT_V0.1 loop
\* lines 114-123: read the sheet, drop rows without key
LDS_Read ==
    /\ variant = "LDS"
    /\ pc = "read"
    /\ df' = Indices(Len(sheet[cur]))
    /\ pc' = "filter"
    /\ UNCHANGED <<envVars, rec, cur, thr, latest, row, sent, wlog, nreads, conn, startRec, histVars>>

\* lines 126-132: read_running_rec and the date filter
LDS_Filter ==
    /\ variant = "LDS"
    /\ pc = "filter"
    /\ thr' = ReadValue(rec)
    /\ rec' = AfterRead(rec)
    /\ nreads' = nreads + 1
    /\ df' = IF tsfield THEN LDS_DateFilter(df, ReadValue(rec)) ELSE df
    /\ pc' = "enrich"
    /\ UNCHANGED <<envVars, cur, latest, row, sent, wlog, conn, startRec, histVars>>

\* lines 137-153: return when there is no connection; on an empty frame no
\* 'Part_Number' column is created and
\* dropna(subset=['Part_Number']) raises KeyError, which nothing catches
LDS_Enrich ==
    /\ variant = "LDS"
    /\ pc = "enrich"
    /\ \E c \in ConnOutcomes :
        /\ conn' = c
        /\ df' = IF c = "up" THEN Enrich(df) ELSE df
        /\ pc' = IF c = "down" THEN "done"
                 ELSE IF df = << >> THEN "crashed"
                 ELSE IF Enrich(df) = << >> THEN "done" ELSE "rows"
    /\ UNCHANGED <<envVars, rec, cur, thr, latest, row, sent, wlog, nreads, startRec, histVars>>

\* lines 159-161: on the last row, before it is converted and written
LDS_Cursor ==
    /\ variant = "LDS"
    /\ pc = "rows"
    /\ row = Len(df) - 1
    /\ wlog = << >>
    /\ \/ /\ tsfield
          /\ \E o \in WriteOutcomes :
              /\ latest' = LatestDate(df)
              /\ rec' = LDS_UpdateRec(rec, LatestDate(df), o)
              /\ wlog' = Append(wlog, WriteEvent(rec, LatestDate(df),
                                  IF o = "open_fails" THEN o ELSE "write_fails"))
          /\ pc' = pc
       \/ /\ ~tsfield           \* start_col was never bound: NameError
          /\ pc' = "crashed"
          /\ UNCHANGED <<latest, rec, wlog>>
    /\ UNCHANGED <<envVars, cur, df, thr, row, sent, nreads, conn, startRec, histVars>>

\* df.loc[mask, 'Nine_Serial_Number'] = None leaves None or NaN in the frame,
\* depending on the dtype the column has at that moment; only None is seen
\* by `None in data_dict.values()`
LotStoredAsNone(sn) == IF sn \in PartialSerials THEN BOOLEAN ELSE {FALSE}

\* lines 163-211: convert the row, generate_xml unless a value is None
LDS_Row ==
    /\ variant = "LDS"
    /\ pc = "rows"
    /\ row < Len(df) - 1 \/ wlog # << >>
    /\ LET i == df[row + 1]
       IN  \E asNone \in LotStoredAsNone(Cell(i).sn) :
              \* data_dict["key_Start_Date_Time"] missing: key_STARTTIME_SORTED None
              sent' = IF tsfield /\ FloatOK(Cell(i).val) /\ ~asNone
                      THEN sent \cup {i} ELSE sent
    /\ row' = row + 1
    /\ pc' = IF row + 1 = Len(df) THEN "done" ELSE "rows"
    /\ UNCHANGED <<envVars, rec, cur, df, thr, latest, wlog, nreads, conn, startRec, histVars>>

\* ------------------------------------- FCT and MESA: the date-window filter
\* INI Retention_date / Running_date, the look-back window in days
retention_date == 30
running_date   == Running_date

\* Facet_Common step 3: date_series.notna() & (date_series >= now - retention);
\* without the column df['key_Start_Date_Time'] raises KeyError, the except
\* clause of line 207 logs it and returns
FCT_DateFilter ==
    /\ variant = "FCT"
    /\ pc = "filter"
    /\ LET t    == now - retention_date
           P(i) == ToDatetime(Cell(i).ts) # NaT /\ GE(ToDatetime(Cell(i).ts), t)
       IN  /\ thr' = IF tsfield THEN t ELSE thr
           /\ df' = IF tsfield THEN SelectSeq(df, P) ELSE df
           /\ pc' = IF ~tsfield \/ SelectSeq(df, P) = << >> THEN "done" ELSE "enrich"
    /\ UNCHANGED <<envVars, rec, cur, latest, row, sent, wlog, nreads, conn, startRec, histVars>>

\* 050_TAK_MESA: with running_date > 0, to_datetime(errors='coerce'),
\* dropna(subset=['datetime_col_temp']), then datetime_col_temp >= cutoff_date;
\* nothing is done when the column is not in the frame
MESA_DateFilter ==
    /\ variant = "MESA"
    /\ pc = "filter"
    /\ running_date > 0
    /\ LET t == now - running_date
       IN  /\ thr' = IF tsfield THEN t ELSE thr
           /\ df' = IF tsfield THEN DateFilter(df, t) ELSE df
           /\ pc' = IF tsfield /\ DateFilter(df, t) = << >> THEN "done" ELSE "save"
    /\ UNCHANGED <<envVars, rec, cur, latest, row, sent, wlog, nreads, conn, startRec, histVars>>

\* ----------------------------------------------------------- specification
Next ==
    \/ AppendRow \/ Tick \/ StartRun \/ NextFile \/ Kill \/ Restart
    \/ ReadSheets
    \/ V13_ApplyDateFilter \/ V13_Enrich \/ V13_TypeConv \/ V13_Rename
    \/ GRT_ApplyDateFilter \/ GRT_Enrich \/ GRT_TypeConv \/ GRT_Save \/ GRT_Commit
    \/ V04_Load \/ V04_Cursor \/ V04_Row
    \/ LDS_Read \/ LDS_Filter \/ LDS_Enrich \/ LDS_Cursor \/ LDS_Row

Spec == Init /\ [][Next]_vars

TypeOK ==
    /\ rec \in RecValues
    /\ pc \in MidFile \cup {"idle", "done", "killed", "crashed"}
    /\ cur \in Files
    /\ sent \subseteq 1..MaxRows

\* the same scripts on a file system whose writes may fail
InitIO ==
    /\ variant \in Variants
    /\ faults = "fs"
    /\ now = Now0
    /\ tsfield = TRUE
    /\ rs = NoResample
    /\ sel = NoSelect
    /\ xy = NoXY
    /\ fcfg = NoCfg
    /\ fl = NoLoop
    /\ tc = NoCoerce
    /\ sheet = [f \in Files |-> << >>]
    /\ rec = Absent
    /\ pc = "idle"
    /\ cur = 1
    /\ df = << >>
    /\ thr = None
    /\ latest = None
    /\ row = 0
    /\ sent = {}
    /\ wlog = << >>
    /\ nreads = 0
    /\ conn = "unknown"
    /\ startRec = Absent
    /\ prevSent = [f \in Files |-> {}]
    /\ own = [f \in Files |-> Absent]
    /\ prevRec = Absent
    /\ ran = FALSE
    /\ dirty = FALSE
    /\ clean = FALSE

SpecIO == InitIO /\ [][Next]_vars

\* the same scripts with a database that may be unreachable
InitDB ==
    /\ variant \in Variants
    /\ faults = "db"
    /\ now = Now0
    /\ tsfield = TRUE
    /\ rs = NoResample
    /\ sel = NoSelect
    /\ xy = NoXY
    /\ fcfg = NoCfg
    /\ fl = NoLoop
    /\ tc = NoCoerce
    /\ sheet = [f \in Files |-> << >>]
    /\ rec = Absent
    /\ pc = "idle"
    /\ cur = 1
    /\ df = << >>
    /\ thr = None
    /\ latest = None
    /\ row = 0
    /\ sent = {}
    /\ wlog = << >>
    /\ nreads = 0
    /\ conn = "unknown"
    /\ startRec = Absent
    /\ prevSent = [f \in Files |-> {}]
    /\ own = [f \in Files |-> Absent]
    /\ prevRec = Absent
    /\ ran = FALSE
    /\ dirty = FALSE
    /\ clean = FALSE

SpecDB == InitDB /\ [][Next]_vars

\* the date-window filter of every script on its own: any sheet, any
\* running-record content, any day
FilterVariants == Variants \cup {"FCT", "MESA"}

RECURSIVE SeqsUpTo(_, _)
SeqsUpTo(S, n) ==
    IF n = 0 THEN {<< >>}
    ELSE LET shorter == SeqsUpTo(S, n - 1)
         IN  shorter \cup {Append(q, x) : q \in shorter, x \in S}

\* rows that differ in the start-date cell only
DateRows == {r \in Rows : r.end = r.ts /\ r.sn = "150-2" /\ r.val = "3.5"}

InitFilter ==
    /\ variant \in FilterVariants
    /\ faults = "none"
    /\ now \in Now0 .. (Now0 + MaxTick)
    /\ tsfield = TRUE
    /\ rs = NoResample
    /\ sel = NoSelect
    /\ xy = NoXY
    /\ fcfg = NoCfg
    /\ fl = NoLoop
    /\ tc = NoCoerce
    /\ \E q \in SeqsUpTo(DateRows, MaxRows) :
          /\ sheet = [f \in Files |-> IF f = 1 THEN q ELSE << >>]
          /\ df = Indices(Len(q))
    /\ rec \in RecValues
    /\ pc = IF variant = "V04" THEN "read" ELSE "filter"
    /\ cur = 1
    /\ thr = None
    /\ latest = None
    /\ row = 0
    /\ sent = {}
    /\ wlog = << >>
    /\ nreads = 0
    /\ conn = "unknown"
    /\ startRec = rec
    /\ prevSent = [f \in Files |-> {}]
    /\ own = [f \in Files |-> rec]
    /\ prevRec = rec
    /\ ran = FALSE
    /\ dirty = FALSE
    /\ clean = FALSE

NextFilter ==
    \/ V13_ApplyDateFilter \/ GRT_ApplyDateFilter \/ LDS_Filter \/ V04_Load
    \/ FCT_DateFilter \/ MESA_DateFilter

SpecFilter == InitFilter /\ [][NextFilter]_vars

\* the same frames with no key_Start_Date_Time among the fields; for LD-SPUT
\* the steps after the filter, which use the field again
InitNoField ==
    /\ variant \in FilterVariants
    /\ faults = "none"
    /\ now \in Now0 .. (Now0 + MaxTick)
    /\ tsfield = FALSE
    /\ rs = NoResample
    /\ sel = NoSelect
    /\ xy = NoXY
    /\ fcfg = NoCfg
    /\ fl = NoLoop
    /\ tc = NoCoerce
    /\ \E q \in SeqsUpTo(DateRows, MaxRows) :
          /\ sheet = [f \in Files |-> IF f = 1 THEN q ELSE << >>]
          /\ df = Indices(Len(q))
    /\ rec \in RecValues
    /\ pc = IF variant = "V04" THEN "read" ELSE "filter"
    /\ cur = 1
    /\ thr = None
    /\ latest = None
    /\ row = 0
    /\ sent = {}
    /\ wlog = << >>
    /\ nreads = 0
    /\ conn = "unknown"
    /\ startRec = rec
    /\ prevSent = [f \in Files |-> {}]
    /\ own = [f \in Files |-> rec]
    /\ prevRec = rec
    /\ ran = FALSE
    /\ dirty = FALSE
    /\ clean = FALSE

NextNoField == NextFilter \/ LDS_Enrich \/ LDS_Cursor \/ LDS_Row

SpecNoField == InitNoField /\ [][NextNoField]_vars

\* type conversion and what follows it, on its own: any frame of rows that
\* passed the date filter and the enrichment
TypeRows == {r \in Rows : r.ts = Now0 - DEFAULT_FALLBACK_DAYS /\ r.end = r.ts /\ r.sn = "150-2"}

InitTypes ==
    /\ variant \in Variants
    /\ faults = "none"
    /\ now = Now0
    /\ tsfield = TRUE
    /\ rs = NoResample
    /\ sel = NoSelect
    /\ xy = NoXY
    /\ fcfg = NoCfg
    /\ fl = NoLoop
    /\ tc = NoCoerce
    /\ \E q \in SeqsUpTo(TypeRows \cap RowsOf(variant), MaxRows) \ {<< >>} :
          /\ sheet = [f \in Files |-> IF f = 1 THEN q ELSE << >>]
          /\ df = Indices(Len(q))
    /\ rec \in {Empty, Stored(Now0 - DEFAULT_FALLBACK_DAYS)}
    /\ pc = IF variant \in {"V13", "GRT"} THEN "types" ELSE "rows"
    /\ cur = 1
    /\ thr = Now0 - DEFAULT_FALLBACK_DAYS
    /\ latest = Now0 - DEFAULT_FALLBACK_DAYS
    /\ row = 0
    /\ sent = {}
    /\ wlog = << >>
    /\ nreads = IF variant = "V04" THEN 0 ELSE 1
    /\ conn = IF variant = "V04" THEN "unknown" ELSE "up"
    /\ startRec = rec
    /\ prevSent = [f \in Files |-> {}]
    /\ own = [f \in Files |-> rec]
    /\ prevRec = rec
    /\ ran = FALSE
    /\ dirty = FALSE
    /\ clean = FALSE

NextTypes ==
    \/ V13_TypeConv \/ V13_Rename
    \/ GRT_TypeConv \/ GRT_Save \/ GRT_Commit
    \/ LDS_Cursor \/ LDS_Row
    \/ V04_Row

SpecTypes == InitTypes /\ [][NextTypes]_vars

\* the pipeline at rest, while a frame is resampled or a sheet is looked up
IdlePipeline ==
    /\ variant = "V13"
    /\ faults = "none"
    /\ now = Now0
    /\ tsfield = TRUE
    /\ sheet = [f \in Files |-> << >>]
    /\ rec = Absent
    /\ pc = "done"
    /\ cur = NFiles
    /\ df = << >>
    /\ thr = None
    /\ latest = None
    /\ row = 0
    /\ sent = {}
    /\ wlog = << >>
    /\ nreads = 0
    /\ conn = "unknown"
    /\ startRec = rec
    /\ prevSent = [f \in Files |-> {}]
    /\ own = [f \in Files |-> rec]
    /\ prevRec = rec
    /\ ran = FALSE
    /\ dirty = FALSE
    /\ clean = FALSE

\* ------------------------------------------------ 051_Particle: resampling
\* int(time_interval * 60), the bucket width in minutes
interval_minutes == 2

\* pd.to_numeric(errors='coerce') of a cell that is not a number
NotANumber == -3

PtNames   == 1 .. 2                       \* PtName values, in sort order
Minutes   == 0 .. MaxMinute
Ch1Values == {NotANumber, 1, 2}           \* Ch1KeisokuData after to_numeric
Ch2Values == {NotANumber, 1}              \* a further KeisokuData column
AllRows   == [pt : PtNames, t : Minutes \cup {NaT}, ch1 : Ch1Values, ch2 : Ch2Values]
\* rows whose further KeisokuData columns all hold numbers
ResRows   == {r \in AllRows : r.ch2 # NotANumber}
NoCh1Rows == {r \in ResRows : r.ch1 = NotANumber}   \* no such column

\* Start_Date_Time.dt.floor(f'{interval_minutes}min')
time_bin(t) == t - (t % interval_minutes)

\* the order of sort_values(['PtName', 'Start_Date_Time'])
Before(a, b) == a.pt < b.pt \/ (a.pt = b.pt /\ a.t < b.t)

\* sort_values on two columns is a stable lexsort: the row labels of frame
\* `in` listed in s, reordered; equal keys keep their order
RECURSIVE SortValues(_, _)
SortValues(in, s) ==
    IF s = << >> THEN << >>
    ELSE LET rest == SortValues(in, SubSeq(s, 1, Len(s) - 1))
             x    == s[Len(s)]
             k    == Cardinality({j \in 1 .. Len(rest) : ~Before(in[x], in[rest[j]])})
         IN  SubSeq(rest, 1, k) \o <<x>> \o SubSeq(rest, k + 1, Len(rest))

\* target_col_for_max: Ch1KeisokuData if the frame has it, else Start_Date_Time
Target(r, ch1col) == IF ch1col THEN r.ch1 ELSE r.t

\* no label: what idxmax gives for a group whose values are all NaN
NoIdx == 0

IdxMax_First(in, ch1col, g) == g[1]

\* groupby(...)[target].idxmax() on one group g (labels in frame order):
\* NaN is skipped, the first row holding the maximum is taken
IdxMax(in, ch1col, g) ==
    LET vals == {Target(in[g[j]], ch1col) : j \in 1 .. Len(g)} \ {NotANumber}
    IN  IF vals = {} THEN NoIdx
        ELSE g[CHOOSE j \in 1 .. Len(g) :
                 /\ Target(in[g[j]], ch1col) = Max(vals)
                 /\ \A h \in 1 .. (j - 1) : Target(in[g[h]], ch1col) # Max(vals)]

\* the (PtName, time_bin) key of a row
GroupKey(r) == <<r.pt, time_bin(r.t)>>

\* rows of the frame left by dropna(subset=['Start_Date_Time']), sorted
Sorted(in) ==
    LET Parsed(i) == in[i].t # NaT
    IN  SortValues(in, SelectSeq(Indices(Len(in)), Parsed))

\* idx_to_keep: one label per group
IdxToKeep(in, ch1col) ==
    LET srt == Sorted(in)
        Grp(k) == LET InK(i) == GroupKey(in[i]) = k IN SelectSeq(srt, InK)
    IN  {IdxMax(in, ch1col, Grp(k)) : k \in {GroupKey(in[i]) : i \in Range(srt)}}

\* lines 454-455: no critical column of the row is null (PtName is set in
\* every row of a group; Ch1KeisokuData counts where the frame has it)
Critical(r, ch1col) == (ch1col => r.ch1 # NotANumber) /\ r.ch2 # NotANumber

\* lines 417-447 and the dropna on the KeisokuData columns of 451-456.
\* A group of NaN only has no label: df.loc raises KeyError, which nothing
\* around it catches; a pandas that reindexes missing labels instead yields
\* an all-NaN row, removed by the dropna.
Resample ==
    /\ rs.st = "in"
    /\ rs.prog = "051"
    /\ rs.in # << >>
    /\ LET keep == IdxToKeep(rs.in, rs.ch1)
           rows == {i \in keep \ {NoIdx} : Critical(rs.in[i], rs.ch1)}
       IN  \/ rs' = [rs EXCEPT !.st = "out", !.out = rows]
           \/ /\ NoIdx \in keep
              /\ rs' = [rs EXCEPT !.st = "crashed"]
    /\ UNCHANGED <<pipeVars, sel, xy, fcfg, fl, tc>>

\* line 417, `not df.empty` is false: the frame goes on as it is
ResampleSkipped ==
    /\ rs.st = "in"
    /\ rs.prog = "051"
    /\ rs.in = << >>
    /\ rs' = [rs EXCEPT !.st = "out"]
    /\ UNCHANGED <<pipeVars, sel, xy, fcfg, fl, tc>>

\* Quick_test.py 57-61: rows of target_pt with a parsed time, sorted by time;
\* groupby("time_bin")["Start_Date_Time"].idxmin(). sort_values on one column
\* is not stable, so among rows of equal time any one may come first.
target_pt == 1

QuickResample ==
    /\ rs.st = "in"
    /\ rs.prog = "quick"
    /\ LET in   == rs.in
           a12  == {i \in 1 .. Len(in) : in[i].pt = target_pt /\ in[i].t # NaT}
           Bins == {time_bin(in[i].t) : i \in a12}
           Grp(b) == {i \in a12 : time_bin(in[i].t) = b}
       IN  \E f \in [Bins -> a12] :
              /\ \A b \in Bins : /\ f[b] \in Grp(b)
                                 /\ \A j \in Grp(b) : in[f[b]].t <= in[j].t
              /\ rs' = [rs EXCEPT !.st = "out", !.out = {f[b] : b \in Bins}]
    /\ UNCHANGED <<pipeVars, sel, xy, fcfg, fl, tc>>

InitResample ==
    /\ IdlePipeline
    /\ sel = NoSelect
    /\ xy = NoXY
    /\ fcfg = NoCfg
    /\ fl = NoLoop
    /\ tc = NoCoerce
    /\ \E prog \in {"051", "quick"}, c \in BOOLEAN :
       \E n \in 0 .. MaxIn : \E q \in [1 .. n -> IF c THEN ResRows ELSE NoCh1Rows] :
          /\ prog = "quick" => ~c
          /\ rs = [prog |-> prog, in |-> q, ch1 |-> c, st |-> "in", out |-> {}]

NextResample == Resample \/ ResampleSkipped \/ QuickResample

\* frames where any KeisokuData column may hold NaN
InitCritical ==
    /\ IdlePipeline
    /\ sel = NoSelect
    /\ xy = NoXY
    /\ fcfg = NoCfg
    /\ fl = NoLoop
    /\ tc = NoCoerce
    /\ \E c \in BOOLEAN :
       \E n \in 1 .. MaxRows :
       \E q \in [1 .. n -> IF c THEN AllRows ELSE {r \in AllRows : r.ch1 = NotANumber}] :
          rs = [prog |-> "051", in |-> q, ch1 |-> c, st |-> "in", out |-> {}]

NextCritical == Resample

SpecCritical == InitCritical /\ [][NextCritical]_vars

SpecResample == InitResample /\ [][NextResample]_vars

\* -------------------------------------------- 050_TAK_MESA: find_latest_sheet
\* sheet names of a workbook, as the pattern sees them: the pattern alone,
\* the pattern followed by "(n)", or anything else; pad: blanks around the name
SheetNames ==
    [kind : {"plain"}, n : {0}, pad : BOOLEAN]
        \cup [kind : {"ver"}, n : 0 .. MaxVersion, pad : BOOLEAN]
        \cup [kind : {"other"}, n : 0 .. 1, pad : {FALSE}]

\* regex.match(sheet.strip()): escape(pattern) + r'(?:\s*\(([0-9]+)\))?$'
Matches(name) == name.kind \in {"plain", "ver"}

\* int(version_str) if version_str else 0
Version(name) == IF name.kind = "ver" THEN name.n ELSE 0

\* latest_sheet = None
NoSheet == 0

RECURSIVE Scan_AnyMatch(_, _, _, _)
Scan_AnyMatch(names, k, latest_sheet, latest_version) ==
    IF k > Len(names) THEN latest_sheet
    ELSE IF Matches(names[k])
         THEN Scan_AnyMatch(names, k + 1, k, Version(names[k]))
         ELSE Scan_AnyMatch(names, k + 1, latest_sheet, latest_version)

\* the loop of lines 69-77 from position k on; a sheet is named by its
\* position in all_sheets
RECURSIVE Scan(_, _, _, _)
Scan(names, k, latest_sheet, latest_version) ==
    IF k > Len(names) THEN latest_sheet
    ELSE IF Matches(names[k]) /\ Version(names[k]) >= latest_version
         THEN Scan(names, k + 1, k, Version(names[k]))
         ELSE Scan(names, k + 1, latest_sheet, latest_version)

\* latest_sheet = None; latest_version = -1; the loop; return latest_sheet
find_latest_sheet(all_sheets) == Scan(all_sheets, 1, NoSheet, -1)

FindLatestSheet ==
    /\ sel.st = "in"
    /\ sel' = [sel EXCEPT !.st = "out", !.found = find_latest_sheet(sel.names)]
    /\ UNCHANGED <<pipeVars, rs, xy, fcfg, fl, tc>>

\* the sheet names of a workbook are distinct
InitSheet ==
    /\ IdlePipeline
    /\ rs = NoResample
    /\ xy = NoXY
    /\ fcfg = NoCfg
    /\ fl = NoLoop
    /\ tc = NoCoerce
    /\ \E n \in 0 .. MaxSheets : \E q \in [1 .. n -> SheetNames] :
          /\ \A i, j \in 1 .. n : q[i] = q[j] => i = j
          /\ sel = [names |-> q, st |-> "in", found |-> NoSheet]

NextSheet == FindLatestSheet

SpecSheet == InitSheet /\ [][NextSheet]_vars

\* ------------------------------------------------- the cursor read, alone
\* Ru_AFM.read_running_rec: timedelta(days=10)
AFM_FALLBACK_DAYS == 10

\* Facet_Common.process_excel_file: start_row = int(20)
FCT_START_ROW == 20

\* a running_rec file whose content pd.to_datetime cannot parse
Garbage == [kind |-> "bad", val |-> 0]

\* scripts with a cursor read: V1.3, CVD_Grating, LD-SPUT, Ru_AFM,
\* optimized_sputter and Facet_Common
ReadVariants == {"V13", "GRT", "LDS", "AFM", "SPT", "FCT"}

\* the days of the fallback date of each read_running_rec
FallbackDays(v) == IF v = "AFM" THEN AFM_FALLBACK_DAYS ELSE DEFAULT_FALLBACK_DAYS

\* open(running_rec_path, 'w') of a file that does not exist yet
CreateOutcomes == IF faults = "fs" THEN {"ok", "open_fails"} ELSE {"ok"}

\* V1.3 creates the file inside try/except; CVD_Grating does not create it
CreateGuarded(v) == v \in {"V13", "GRT"}

\* read_running_rec as a whole: the value returned, the file left behind,
\* or the exception of an unguarded open(path, 'w')
ReadRunningRec ==
    /\ pc = "read_rec"
    /\ variant \in ReadVariants \ {"FCT"}
    /\ \E o \in CreateOutcomes :
          IF rec.kind = "absent" /\ o = "open_fails" /\ ~CreateGuarded(variant)
          THEN /\ pc' = "crashed"
               /\ UNCHANGED <<thr, rec>>
          ELSE /\ pc' = "boundary"
               /\ thr' = IF variant = "GRT" THEN GRT_ReadValue(rec)
                         ELSE IF rec.kind = "ts" THEN rec.val
                         ELSE now - FallbackDays(variant)
               /\ rec' = IF variant # "GRT" /\ o = "ok" THEN AfterRead(rec) ELSE rec
    /\ nreads' = nreads + 1
    /\ UNCHANGED <<envVars, cur, df, latest, row, sent, wlog, conn, startRec, histVars>>

\* the caller: V1.3, CVD_Grating, LD-SPUT and Ru_AFM filter from the value
\* read; optimized_sputter lines 111-116 replace it by today - Running_date
StartBoundary ==
    /\ pc = "boundary"
    /\ thr' = IF variant = "SPT" THEN now - Running_date ELSE thr
    /\ pc' = "filter"
    /\ UNCHANGED <<envVars, rec, cur, df, latest, row, sent, wlog, nreads, conn,
                   startRec, histVars>>

\* Facet_Common 178-179: the start row computed from the stored row number
\* is overwritten by 20
FCT_StartRow ==
    /\ pc = "read_rec"
    /\ variant = "FCT"
    /\ thr' = FCT_START_ROW
    /\ pc' = "filter"
    /\ nreads' = nreads + 1
    /\ UNCHANGED <<envVars, rec, cur, df, latest, row, sent, wlog, conn,
                   startRec, histVars>>

InitRead ==
    /\ variant \in ReadVariants
    /\ faults \in {"none", "fs"}
    /\ now \in Now0 .. (Now0 + MaxTick)
    /\ tsfield = TRUE
    /\ rs = NoResample
    /\ sel = NoSelect
    /\ xy = NoXY
    /\ fcfg = NoCfg
    /\ fl = NoLoop
    /\ tc = NoCoerce
    /\ sheet = [f \in Files |-> << >>]
    /\ df = << >>
    /\ rec \in RecValues \cup {Garbage}
    /\ pc = "read_rec"
    /\ cur = 1
    /\ thr = None
    /\ latest = None
    /\ row = 0
    /\ sent = {}
    /\ wlog = << >>
    /\ nreads = 0
    /\ conn = "unknown"
    /\ startRec = rec
    /\ prevSent = [f \in Files |-> {}]
    /\ own = [f \in Files |-> rec]
    /\ prevRec = rec
    /\ ran = FALSE
    /\ dirty = FALSE
    /\ clean = FALSE

NextRead == ReadRunningRec \/ StartBoundary \/ FCT_StartRow

SpecRead == InitRead /\ [][NextRead]_vars

\* ----------------------------------------------- the XY coordinate sheet
\* range(1, 6): the points X1..X5, Y1..Y5
point_count == 5

Coords  == 1 .. 2
XYRows  == [x : Coords, y : Coords]
NullXY  == [x |-> None, y |-> None]

\* scripts that merge coordinates: V1.3 (CVD_Grating alike), V1.1, Facet_Common
XYProgs == {"V13", "V11", "FCT"}

\* df_xy_coords.iloc[k, ...]: positions count from 0
ILoc(tab, k) == tab[k + 1]

\* the row of the XY sheet a script reads for point i: V1.1 has row_idx = i,
\* V1.3 point_row_index = i - 1, Facet_Common int(parts[1]) - 1
PointRow(prog, i) == IF prog = "V11" THEN i ELSE i - 1

\* reading the XY sheet and attaching the points, as one step of a file.
\* pd.read_excel of a sheet that is not in the workbook raises ValueError:
\* V1.3 _read_excel_sheets then returns (None, DataFrame()) and the caller
\* skips the file, V1.1 returns, Facet_Common's step 1/2/3 except returns.
\* Facet_Common indexes df_xy.iloc[row, col] unchecked: IndexError, same except.
XY_Merge ==
    /\ xy.st = "in"
    /\ LET tab  == xy.tab
           Has(i) == PointRow(xy.prog, i) < Len(tab)
       IN  IF ~xy.found \/ (xy.prog = "FCT" /\ \E i \in 1 .. xy.npts : ~Has(i))
           THEN xy' = [xy EXCEPT !.st = "aborted"]
           ELSE xy' = [xy EXCEPT !.st = "merged",
                          !.pts = [i \in 1 .. xy.npts |->
                                     IF Has(i) THEN ILoc(tab, PointRow(xy.prog, i))
                                     ELSE NullXY]]
    /\ UNCHANGED <<pipeVars, rs, sel, fcfg, fl, tc>>

InitXY ==
    /\ IdlePipeline
    /\ rs = NoResample
    /\ sel = NoSelect
    /\ fcfg = NoCfg
    /\ fl = NoLoop
    /\ tc = NoCoerce
    /\ \E prog \in XYProgs, fnd \in BOOLEAN, np \in 1 .. point_count :
       \E n \in 0 .. MaxXY : \E q \in [1 .. n -> XYRows] :
          /\ ~fnd => n = 0
          \* V1.3 and V1.1 have five points; Facet_Common has the points of
          \* the xy_<row>_<col> entries of its field map
          /\ prog # "FCT" => np = point_count
          /\ xy = [prog |-> prog, found |-> fnd, tab |-> q, st |-> "in",
                   npts |-> np, pts |-> [i \in 1 .. np |-> NullXY]]

NextXY == XY_Merge

SpecXY == InitXY /\ [][NextXY]_vars

\* ------------------------------------------- the [DataFields] configuration
\* a line of the fields option, by the number of its ':'-separated parts:
\* 0 a blank line, 1 a line without ':', 3 key:col:dtype
LineKinds == 0 .. MaxParts

\* scripts that parse the field list: 050_TAK_MESA, Ru_AFM, Facet_Common,
\* CVD_Grating
CfgProgs == {"MESA", "AFM", "FCT", "GRT"}

\* len(line.split(':')) and len(line.split(':', 2))
Split(parts)  == IF parts = 0 THEN 1 ELSE parts
Split2(parts) == IF Split(parts) > 3 THEN 3 ELSE Split(parts)

\* the three-name unpacking of the split raises ValueError
Unpacks(prog, parts) ==
    IF prog \in {"FCT", "GRT"} THEN Split2(parts) = 3 ELSE Split(parts) = 3

\* lines a script does not try to split: blank lines everywhere, and in
\* Facet_Common every line without ':'
Passed(prog, parts) == parts = 0 \/ (prog = "FCT" /\ parts = 1)

\* Ru_AFM 121-126 has no try around the unpacking
Guarded(prog) == prog # "AFM"

\* parsing of the field lines: the lines that gave a field, or the ValueError
ParseFields ==
    /\ fcfg.st = "in"
    /\ LET lines == fcfg.lines
           Bad(i) == ~Passed(fcfg.prog, lines[i]) /\ ~Unpacks(fcfg.prog, lines[i])
       IN  IF ~Guarded(fcfg.prog) /\ \E i \in 1 .. Len(lines) : Bad(i)
           THEN fcfg' = [fcfg EXCEPT !.st = "crashed"]
           ELSE fcfg' = [fcfg EXCEPT !.st = "parsed",
                           !.fields = {i \in 1 .. Len(lines) :
                                          /\ ~Passed(fcfg.prog, lines[i])
                                          /\ Unpacks(fcfg.prog, lines[i])}]
    /\ UNCHANGED <<pipeVars, rs, sel, xy, fl, tc>>

\* after parsing every script goes on to its files and calls pd.read_excel;
\* none tests the field map for emptiness first
ReadFiles ==
    /\ fcfg.st = "parsed"
    /\ fcfg' = [fcfg EXCEPT !.st = "reading"]
    /\ UNCHANGED <<pipeVars, rs, sel, xy, fl, tc>>

InitCfg ==
    /\ IdlePipeline
    /\ rs = NoResample
    /\ sel = NoSelect
    /\ xy = NoXY
    /\ \E prog \in CfgProgs :
       \E n \in 0 .. MaxLines : \E q \in [1 .. n -> LineKinds] :
          fcfg = [prog |-> prog, lines |-> q, st |-> "in", fields |-> {}]
    /\ fl = NoLoop
    /\ tc = NoCoerce

NextCfg == ParseFields \/ ReadFiles

SpecCfg == InitCfg /\ [][NextCfg]_vars

\* ------------------------------------ the loop over the fields of one row
\* a field of the configuration, in INI order: whether its dtype is one of
\* float, str, int, bool, datetime, and what converting the cell does
FieldKinds ==
    [dtype : {"sup"}, cell : {"ok", "valueerror", "exception"}]
        \cup [dtype : {"unsup"}, cell : {"ok"}]

\* scripts with such a loop: optimized_sputter, LD-SPUT (Ru_AFM alike), V1.3
LoopProgs == {"SPT", "LDS", "V13"}

\* optimized_sputter: Count_A = Count_A + 1 is the last statement of the
\* loop body, which `continue` skips: after an unsupported dtype (line 210)
\* and after an exception other than ValueError (line 218)
Advances(f) == f.dtype = "sup" /\ f.cell \in {"ok", "valueerror"}

\* Count_A when field k is reached
Count_A(fields, k) == Cardinality({j \in 1 .. (k - 1) : Advances(fields[j])})

\* the column (from 0) whose cell a script reads for field k; the columns of
\* the frame are in the order of the fields, field k has int(col) = k - 1
ColumnRead(prog, fields, k) ==
    IF prog = "SPT" THEN Count_A(fields, k) ELSE k - 1

\* what the row holds for the field afterwards
Outcome(prog, f) ==
    IF f.dtype = "unsup" THEN (IF prog = "V13" THEN "raw" ELSE "absent")
    ELSE IF f.cell = "ok" THEN "converted"
    ELSE "none"

\* V1.3 _apply_type_conversions leaves the row's loop at the first failing
\* cell (break) and marks the row
Broken(prog, fields, k) ==
    prog = "V13" /\ \E j \in 1 .. (k - 1) : fields[j].cell # "ok"

\* the field loop of one row
ConvertRow ==
    /\ fl.st = "in"
    /\ fl' = [fl EXCEPT !.st = "done",
                 !.out = [k \in 1 .. Len(fl.fields) |->
                            IF Broken(fl.prog, fl.fields, k)
                            THEN [col |-> k - 1, val |-> "unread"]
                            ELSE [col |-> ColumnRead(fl.prog, fl.fields, k),
                                  val |-> Outcome(fl.prog, fl.fields[k])]]]
    /\ UNCHANGED <<pipeVars, rs, sel, xy, fcfg, tc>>

InitLoop ==
    /\ IdlePipeline
    /\ rs = NoResample
    /\ sel = NoSelect
    /\ xy = NoXY
    /\ fcfg = NoCfg
    /\ \E prog \in LoopProgs :
       \E n \in 1 .. MaxFields : \E q \in [1 .. n -> FieldKinds] :
          fl = [prog |-> prog, fields |-> q, st |-> "in", out |-> << >>]
    /\ tc = NoCoerce

NextLoop == ConvertRow

SpecLoop == InitLoop /\ [][NextLoop]_vars

\* ------------------------------------- type coercion over a whole table
\* a cell under the dtype of its field: it converts; it is "N/A" for a float
\* (float() raises ValueError, pd.to_numeric(errors='coerce') gives NaN); it
\* is "3.5" for an int (int() raises ValueError, astype('Int64') TypeError)
CellKinds == {"ok", "nan", "exc"}

\* V1.3 _apply_type_conversions (CVD_Grating alike) and the V1.1 loop
CoerceProgs == {"V13", "V11"}

\* the rows of the table, by their place in the table coercion started with
RowFails(r) == \E f \in 1 .. Len(r) : r[f] # "ok"

\* V1.3, one pass of `for row_idx in range(len(df_converted))`: the first
\* failing cell puts the row in rows_to_drop_indices
V13_VisitRow ==
    /\ tc.st = "loop"
    /\ tc.prog = "V13"
    /\ tc.k < Len(tc.frame)
    /\ tc' = [tc EXCEPT !.k = tc.k + 1,
                 !.marked = IF RowFails(tc.frame[tc.k + 1])
                            THEN tc.marked \cup {tc.k + 1} ELSE tc.marked]
    /\ UNCHANGED <<pipeVars, rs, sel, xy, fcfg, fl>>

\* V1.3 lines 316-319: df_converted.drop(index=list(rows_to_drop_indices))
V13_DropMarked ==
    /\ tc.st = "loop"
    /\ tc.prog = "V13"
    /\ tc.k = Len(tc.frame)
    /\ LET Kept(i) == i \notin tc.marked
       IN  tc' = [tc EXCEPT !.st = "done", !.live = SelectSeq(tc.live, Kept)]
    /\ UNCHANGED <<pipeVars, rs, sel, xy, fcfg, fl>>

\* idx, left over from `for idx in range(len(filtered_df))` of line 287,
\* which ran before dropna(subset=['part_number']) took tc.lost rows away
StaleIdx == Len(tc.frame) + tc.lost - 1

\* V1.1, one pass of `for key, (col_spec, dtype) in fields_map.items()`:
\* the column is converted as a whole and the rows it left NaN are removed
\* at once; when the conversion raises, the handler drops the row at
\* position idx, and filtered_df.index[idx] raises IndexError when the table
\* is shorter, which the caller of process_single_excel_file catches
V11_ConvertField ==
    /\ tc.st = "loop"
    /\ tc.prog = "V11"
    /\ tc.k < tc.nf
    /\ LET f == tc.k + 1
           Raises == \E j \in 1 .. Len(tc.live) : tc.frame[tc.live[j]][f] = "exc"
           NotNa(i) == tc.frame[i][f] = "ok"
       IN  IF Raises
           THEN IF StaleIdx >= Len(tc.live)
                THEN tc' = [tc EXCEPT !.st = "aborted"]
                ELSE tc' = [tc EXCEPT !.k = f,
                               !.live = SubSeq(tc.live, 1, StaleIdx)
                                          \o SubSeq(tc.live, StaleIdx + 2, Len(tc.live))]
           ELSE tc' = [tc EXCEPT !.k = f, !.live = SelectSeq(tc.live, NotNa)]
    /\ UNCHANGED <<pipeVars, rs, sel, xy, fcfg, fl>>

\* V1.1: the field loop is over
V11_Finish ==
    /\ tc.st = "loop"
    /\ tc.prog = "V11"
    /\ tc.k = tc.nf
    /\ tc' = [tc EXCEPT !.st = "done"]
    /\ UNCHANGED <<pipeVars, rs, sel, xy, fcfg, fl>>

InitCoerce ==
    /\ IdlePipeline
    /\ rs = NoResample
    /\ sel = NoSelect
    /\ xy = NoXY
    /\ fcfg = NoCfg
    /\ fl = NoLoop
    /\ \E prog \in CoerceProgs, nf \in 1 .. MaxFields, lost \in 0 .. 1 :
       \E n \in 1 .. MaxRows : \E q \in [1 .. n -> [1 .. nf -> CellKinds]] :
          /\ prog = "V13" => lost = 0
          /\ tc = [prog |-> prog, frame |-> q, nf |-> nf, lost |-> lost, k |-> 0,
                   live |-> Indices(n), marked |-> {}, st |-> "loop"]

NextCoerce == V13_VisitRow \/ V13_DropMarked \/ V11_ConvertField \/ V11_Finish

SpecCoerce == InitCoerce /\ [][NextCoerce]_vars

\* --------------------------------------------------------------- properties
\* the watermark a running-record content holds; None when it holds none
WM(r) == IF r.kind = "ts" THEN r.val ELSE None

\* C1: the watermark held by the cursor store never decreases, from run to
\* run and within a run
C1_WatermarkNonDecreasing == [][WM(rec') >= WM(rec)]_vars

\* C2: every cursor write is guarded: the date written is strictly greater
\* than the watermark stored at the moment of the write
C2_WritesGuarded ==
    \A k \in 1..Len(wlog) : wlog[k].new > WM(wlog[k].old)

\* C3: a run that repeats a completed run on unchanged files leaves the
\* cursor where the first run left it
C3_RerunKeepsCursor ==
    (pc = "idle" /\ ran /\ clean) => WM(rec) = WM(prevRec)

\* C4: a run that repeats a completed run on unchanged files sends no row
\* of a file that the first run already sent
C4_RerunSendsNothingTwice ==
    (pc = "done" /\ clean) => sent \cap prevSent[cur] = {}

\* C5: when the processing of a file saw a timestamp later than the cursor it
\* started from, it has written the cursor by the time it ends, also when no
\* row reached the sink
C5_CursorAdvancesWithoutOutput ==
    (pc = "done" /\ sent = {} /\ Newer(LatestDate(Indices(Len(sheet[cur]))), ReadValue(startRec)))
        => wlog # << >>

\* C6: after a kill in the middle of a file the cursor store holds the
\* watermark it held when the processing of that file started
C6_KillLeavesCursor ==
    pc = "killed" => WM(rec) = WM(startRec)

\* C7: while a file is processed the cursor is read at most once and written
\* at most once, and no row is handed to the sink after the write
C7_ReadOnceWriteLast ==
    [][/\ nreads' <= 1
       /\ Len(wlog') <= 1
       /\ (wlog # << >> => sent' \subseteq sent)]_vars

\* C8: a cursor write that fails leaves the stored watermark as it was
C8_FailedWriteKeepsValue ==
    [][(Len(wlog') > Len(wlog) /\ wlog'[Len(wlog')].res # "ok")
          => WM(rec') = WM(wlog'[Len(wlog')].old)]_vars

\* C9: the cursor a file's processing starts from is the one its own last
\* processing left: processing another file does not change it
C9_CursorPerFile ==
    pc = "read" => WM(rec) = WM(own[cur])
\* C10: the date-window filter keeps a row exactly when its start date parses
\* and is not earlier than the watermark the filter was given; a row whose
\* date equals the watermark stays, a row whose date does not parse goes
C10_FilterKeepsFromWatermark ==
    [][(thr = None /\ thr' # None) =>
          \A i \in 1..Len(sheet[cur]) :
             (i \in Range(df')) <=> (Cell(i).ts \in Stamps /\ Cell(i).ts >= thr')]_vars

\* a filter has run on a sheet holding a row dated exactly at the watermark,
\* which stayed, an older row and a row without a date, which went
C10_Witness ==
    /\ thr # None
    /\ pc \in {"enrich", "cursor", "save"}
    /\ \E i \in Range(df) : Cell(i).ts = thr
    /\ \E j \in 1..Len(sheet[cur]) : Cell(j).ts = NA /\ j \notin Range(df)

\* C11: the latest date a file's processing reports is the maximum of the
\* start dates that parse in the whole sheet, filtered-out and later dropped
\* rows included, and it is missing only when no start date parses (V04
\* reports the END date column instead and is left out)
C11_LatestIsPreFilterMax ==
    (variant # "V04" /\ thr # None) =>
        /\ latest # None =>
              /\ \E i \in 1..Len(sheet[cur]) : Cell(i).ts = latest
              /\ \A i \in 1..Len(sheet[cur]) : Cell(i).ts \in Stamps => Cell(i).ts <= latest
        /\ (latest = None /\ pc = "done") =>
              \A i \in 1..Len(sheet[cur]) : Cell(i).ts \notin Stamps

\* a null in an output field
Null(x) == x \in {NoneStr, NaN}

\* C12: every row handed to the sink has a value in every output field, the
\* enrichment attributes included
C12_NoNullInSink ==
    \A i \in sent :
        /\ ~Null(OutRec(i).part_number)
        /\ ~Null(OutRec(i).lot_number_9)
        /\ ~Null(OutRec(i).val)

C14_EnrichKeepsFullMatches ==
    (pc = "types" /\ conn = "up") =>
        \A k \in 1..Len(df) :
            /\ SelectSQL(Cell(df[k]).sn)[1] # NoneStr
            /\ SelectSQL(Cell(df[k]).sn)[2] # NoneStr

\* C15: when the database connection fails no row of the file is handed to
\* the sink, and the run goes on with the next file
C15_NoConnectionNoOutput ==
    conn = "down" => (sent = {} /\ pc # "crashed")

\* C16: after resampling, the output holds at most one row for each pair of
\* PtName and time bucket, and where the frame has the Ch1KeisokuData column
\* no input row of that pair has a larger value than the row kept
C16_OneRowPerBucketWithMax ==
    (rs.st = "out" /\ rs.prog = "051") =>
        /\ \A i \in rs.out : i \in 1 .. Len(rs.in) /\ rs.in[i].t # NaT
        /\ \A i, j \in rs.out : GroupKey(rs.in[i]) = GroupKey(rs.in[j]) => i = j
        /\ rs.ch1 =>
             \A i \in rs.out : \A j \in 1 .. Len(rs.in) :
                 (/\ rs.in[j].t # NaT
                  /\ GroupKey(rs.in[j]) = GroupKey(rs.in[i])
                  /\ rs.in[j].ch1 # NotANumber) => rs.in[j].ch1 <= rs.in[i].ch1

\* two rows of one PtName in one bucket, the later one with the larger value:
\* only that one is in the output
C16_Witness ==
    /\ rs.st = "out" /\ rs.prog = "051" /\ rs.ch1
    /\ \E i \in rs.out : \E j \in 1 .. Len(rs.in) :
          /\ j \notin rs.out
          /\ rs.in[j].t # NaT
          /\ GroupKey(rs.in[j]) = GroupKey(rs.in[i])
          /\ rs.in[j].t < rs.in[i].t
          /\ rs.in[j].ch1 # NotANumber
          /\ rs.in[j].ch1 < rs.in[i].ch1

\* C17: where the frame has no Ch1KeisokuData column, the row kept for a
\* pair of PtName and time bucket is the one with the earliest time
C17_EarliestWithoutTieBreak ==
    (rs.st = "out" /\ ~rs.ch1) =>
        \A i \in rs.out : \A j \in 1 .. Len(rs.in) :
            (rs.in[j].t # NaT /\ GroupKey(rs.in[j]) = GroupKey(rs.in[i]))
                => rs.in[i].t <= rs.in[j].t

\* C18: find_latest_sheet returns a sheet that matches the pattern and whose
\* version, 0 when the name has no "(n)", is not below that of any matching
\* sheet; it returns None exactly when no sheet matches
C18_LatestSheetHasHighestVersion ==
    sel.st = "out" =>
        LET names == sel.names IN
        /\ sel.found = NoSheet <=> \A j \in 1 .. Len(names) : ~Matches(names[j])
        /\ sel.found # NoSheet =>
              /\ sel.found \in 1 .. Len(names)
              /\ Matches(names[sel.found])
              /\ \A j \in 1 .. Len(names) :
                    Matches(names[j]) => Version(names[j]) <= Version(names[sel.found])

\* a versioned sheet was returned although a matching sheet without "(n)"
\* and a sheet that does not match come later in the list
C18_Witness ==
    /\ sel.st = "out"
    /\ sel.found # NoSheet
    /\ \E j, h \in (sel.found + 1) .. Len(sel.names) :
          /\ sel.names[j].kind = "plain"
          /\ Version(sel.names[j]) < Version(sel.names[sel.found])
          /\ ~Matches(sel.names[h])

\* C19: of several matching sheets with the same highest version,
\* find_latest_sheet returns the one that comes first in the list
C19_TieGoesToFirstSeen ==
    (sel.st = "out" /\ sel.found # NoSheet) =>
        \A j \in 1 .. (sel.found - 1) :
            ~(/\ Matches(sel.names[j])
              /\ Version(sel.names[j]) = Version(sel.names[sel.found]))

\* C20: when key_Start_Date_Time is not among the configured fields, the
\* date filter hands every row of a non-empty frame on unchanged and does not
\* end the file, and no later step fails for want of the field
C20_MissingFieldSkipsFilter ==
    [][(~tsfield /\ df # << >>) =>
          /\ pc' # "crashed"
          /\ pc \in {"filter", "read"} => (df' = df /\ pc' # "done")]_vars

\* C21: reading a cursor that is absent, empty or unparseable raises nothing
\* and returns today minus the fallback days
C21_CursorReadNeverFails ==
    [][(pc = "read_rec" /\ variant # "FCT" /\ rec.kind # "ts") =>
          (pc' # "crashed" /\ thr' = now - FallbackDays(variant))]_vars

\* C28: when the running_rec file holds a valid value and nothing fails, the
\* boundary from which the run starts is that stored value
C28_RunStartsFromStoredCursor ==
    [][(startRec.kind = "ts" /\ faults = "none" /\ pc # "filter" /\ pc' = "filter"
            /\ variant \in ReadVariants) =>
          thr' = startRec.val]_vars

\* C22: when the XY sheet is missing from the workbook or empty, the file is
\* still processed, with null X and Y for every point
C22_NoXYSheetNeverAborts ==
    (xy.st \notin {"off", "in"} /\ (~xy.found \/ xy.tab = << >>)) =>
        /\ xy.st = "merged"
        /\ \A i \in 1 .. xy.npts : xy.pts[i] = NullXY

\* C23: with a non-empty XY sheet, point i gets the X and Y of row i-1
\* (counting from 0), and null when the sheet has no such row
C23_PointReadsRowBefore ==
    (xy.st \notin {"off", "in"} /\ xy.found /\ xy.tab # << >>) =>
        /\ xy.st = "merged"
        /\ \A i \in 1 .. xy.npts :
              xy.pts[i] = IF i - 1 < Len(xy.tab) THEN ILoc(xy.tab, i - 1) ELSE NullXY

\* C24: with a field list that is empty or has no well-formed line, no
\* spreadsheet is read
C24_EmptyFieldSpecHalts ==
    fcfg.st = "reading" => fcfg.fields # {}

\* C25: parsing the field list raises nothing, skips every line that does
\* not have exactly three ':'-separated parts, and yields a field for each
\* line that has
C25_MalformedLinesSkipped ==
    fcfg.st \notin {"off", "in"} =>
        /\ fcfg.st # "crashed"
        /\ fcfg.fields = {i \in 1 .. Len(fcfg.lines) : fcfg.lines[i] = 3}

\* C26: in a row whose cells all convert, a field of unsupported dtype does
\* not stop the loop and every field of supported dtype is converted from
\* its own column
C26_UnsupportedTypeSkipsOneField ==
    (/\ fl.st = "done"
     /\ \A k \in 1 .. Len(fl.fields) : fl.fields[k].cell = "ok") =>
        \A k \in 1 .. Len(fl.fields) :
            fl.fields[k].dtype = "sup" =>
                fl.out[k] = [col |-> k - 1, val |-> "converted"]

\* C27: type coercion ends normally and the table then holds exactly the
\* rows all of whose cells convert: a failing row is dropped, no other row
\* is, and the file is not given up
C27_RowFailureDropsOnlyThatRow ==
    tc.st \notin {"off", "loop"} =>
        /\ tc.st = "done"
        /\ Range(tc.live) = {i \in 1 .. Len(tc.frame) : ~RowFails(tc.frame[i])}

\* C30: while the coercion loop is in progress the table keeps all its rows
C30_NoRowRemovedDuringLoop ==
    [][(tc.st = "loop" /\ tc'.st = "loop") => tc'.live = tc.live]_vars

\* C29: after resampling and null filtering, every pair of PtName and time
\* bucket that has an input row with no null critical field has exactly one
\* row in the output
C29_ValidBucketKeepsOneRow ==
    (rs.prog = "051" /\ rs.st \in {"out", "crashed"}) =>
        \A j \in 1 .. Len(rs.in) :
            (rs.in[j].t # NaT /\ Critical(rs.in[j], rs.ch1)) =>
                Cardinality({i \in rs.out : GroupKey(rs.in[i]) = GroupKey(rs.in[j])}) = 1

====
